---- MODULE Spec2Model ----
(***************************************************************************)
(* A model of the ingestion-and-retrieval core of the bOt repository:      *)
(*   - the two text chunkers (app/rag.py and app/scraper.py),              *)
(*   - the concurrent image enrichment of scrape_and_index_website,        *)
(*   - the document / website ingestion pipelines writing the vector       *)
(*     index, and the query endpoints reading it.                          *)
(* Several specifications share the module: SpecChunk runs one call of a   *)
(* chunker iteration by iteration, SpecEnrich (FairEnrich and FairAdmitted *)
(* with fairness) runs one scrape_and_index_website call, SpecIndex and    *)
(* SpecSite interleave ingestions of several tenants over one vector       *)
(* index, SpecQuery adds the query endpoints, SpecRecords the relational   *)
(* rows and their deletion, SpecAnswer the cleaning of a chat answer.      *)
(* Strings are sequences of one-character strings; positions are 0-based   *)
(* as in the Python source.                                                *)
(***************************************************************************)
EXTENDS Integers, Sequences, FiniteSets, TLC

VARIABLES
    \* ---- one call of _chunk_text ----
    ckFn,        \* which chunker runs: "rag" or "scraper"
    ckInput,     \* the text argument as passed
    ckMax,       \* max_chars
    ckOverlap,   \* overlap
    ckText,      \* text after normalisation
    ckStart,     \* start
    ckChunks,    \* chunks
    ckOut,       \* the returned list
    ckPc,        \* "call" | "loop" | "dedupe" | "returned" | "diverges"
    ckVisited,   \* history: the start positions the loop head has seen
    \* ---- one image enrichment: a call of scrape_and_index_website, or of
    \* ---- rag._read_pdf_content_with_images (images, outcomes and descriptions) ----
    maxImages,   \* max_images, the configured maximum image count
    maxConc,     \* max_concurrent_images
    found,       \* len(image_urls); for a PDF the number of embedded images
    slow,        \* the image task whose network and model calls may take for ever (0: none)
    pagePc,      \* position of the coroutine scrape_and_index_website
    failedAt,    \* where scrape_and_index_website raised ("" while it has not)
    permits,     \* asyncio.Semaphore._value
    tpc,         \* per image task: "new" | "waiting" | "download" | "vision" | "done"
    tres,        \* per image task: the value _download_and_analyze_image returns
    tout,        \* per image task: how its body ended
    blocked,     \* the task whose synchronous call holds the event loop (0: none)
    descs,       \* image_descriptions
    \* ---- the vector index, ingestions and queries ----
    index,       \* namespace -> set of stored vectors {id, values, metadata}
    runs,        \* ingestion calls in progress or finished, by slot
    started,     \* number of ingestion calls made so far
    log,         \* history: what each finished ingestion wrote
    q,           \* the query being answered (NoQuery between queries)
    \* ---- one call of synthesize_answer ----
    ansRaw,      \* chat.choices[0].message.content, the chat model's answer
    ansOut,      \* the cleaned answer returned
    ansPc,       \* "idle" | "chat" | "clean" | "returned"
    \* ---- the relational database and the upload directory ----
    rows,        \* the Document and Website rows
    files,       \* the names of the stored files
    deleted      \* history: the rows the delete handlers removed

chunkVars  == <<ckFn, ckInput, ckMax, ckOverlap, ckText, ckStart, ckChunks, ckOut, ckPc, ckVisited>>
enrichVars == <<maxImages, maxConc, found, slow, pagePc, failedAt, permits, tpc, tres, tout, blocked, descs>>
indexVars  == <<index, runs, started, log, q>>
answerVars == <<ansRaw, ansOut, ansPc>>
recordVars == <<rows, files, deleted>>
vars       == <<chunkVars, enrichVars, indexVars, answerVars, recordVars>>

None == "None"
NoQuery == [endpoint |-> "none"]

(***************************************************************************)
(* Bounds of the model.                                                    *)
(***************************************************************************)
MaxLen == 5
MaxChars == 3
MaxOverlap == 2

Min2(a, b) == IF a < b THEN a ELSE b
Max2(a, b) == IF a > b THEN a ELSE b
SetMax(S) == CHOOSE x \in S : \A y \in S : y <= x
SetMin(S) == CHOOSE x \in S : \A y \in S : x <= y

(***************************************************************************)
(* Python string operations.                                               *)
(***************************************************************************)
Whitespace == {" ", "\n", "\t"}
Alphabet == {"a", ".", "?", " "}
Texts == UNION {[1..n -> Alphabet] : n \in 0..MaxLen}

\* text[a:b] for 0 <= a, b
Slice(s, a, b) == SubSeq(s, a + 1, Min2(b, Len(s)))

\* s.strip()
Strip(s) ==
    LET keep == {i \in 1..Len(s) : s[i] \notin Whitespace}
    IN IF keep = {} THEN <<>> ELSE SubSeq(s, SetMin(keep), SetMax(keep))

\* re.sub(r'\s+', ' ', text): every maximal run of whitespace becomes one space
RECURSIVE CollapseWs(_)
CollapseWs(s) ==
    IF s = <<>> THEN <<>>
    ELSE IF Head(s) \in Whitespace
         THEN IF Len(s) > 1 /\ s[2] \in Whitespace
              THEN CollapseWs(Tail(s))
              ELSE <<" ">> \o CollapseWs(Tail(s))
         ELSE <<Head(s)>> \o CollapseWs(Tail(s))

\* re.sub(r'\s+', ' ', text).strip()
NormalizeNoStrip(s) == CollapseWs(s)
Normalize(s) == Strip(CollapseWs(s))

\* window.rfind(t + ' '): the highest 0-based index where it occurs, or -1
Rfind(w, t) ==
    LET at == {i \in 0..(Len(w) - 2) : w[i + 1] = t /\ w[i + 2] = " "}
    IN IF at = {} THEN -1 ELSE SetMax(at)

\* max(window.rfind('. '), window.rfind('? '), window.rfind('! '))
LastBoundary(w) == SetMax({Rfind(w, "."), Rfind(w, "?"), Rfind(w, "!")})

(***************************************************************************)
(* One iteration of the while loop of _chunk_text, for the window starting *)
(* at start: the chunk it appends (<<>>: none), the next start, and        *)
(* whether the loop breaks after it.                                       *)
(***************************************************************************)
RagCut(window, atEnd) ==
    LET cut == LastBoundary(window)
    IN IF cut = -1 \/ atEnd THEN Len(window) ELSE cut

RagNextStart(start, cut, overlap) == Max2(0, (start + cut) - overlap)

RagIter(text, max_chars, overlap, start) ==
    LET end    == Min2(start + max_chars, Len(text))
        window == Slice(text, start, end)
        cut    == RagCut(window, end = Len(text))
    IN [chunk |-> Strip(Slice(window, 0, cut)),
        next  |-> RagNextStart(start, cut, overlap),
        brk   |-> end = Len(text)]

ScraperCut(window, atEnd) ==
    LET cut == LastBoundary(window)
    IN IF cut = -1 \/ atEnd THEN Len(window) ELSE cut + 1

ScraperNextStartUnguarded(start, cut, overlap) == Max2(0, (start + cut) - overlap)
ScraperNextStart(start, cut, overlap) ==
    LET next_start == (start + cut) - overlap
    IN IF next_start <= start THEN start + Max2(1, cut \div 2) ELSE next_start

ScraperIterWide(text, max_chars, overlap, start) ==
    LET end    == Min2(start + max_chars + 1, Len(text))
        window == Slice(text, start, end)
        cut    == ScraperCut(window, end = Len(text))
    IN [chunk |-> Strip(Slice(window, 0, cut)),
        next  |-> ScraperNextStart(start, cut, overlap),
        brk   |-> end >= Len(text)]

ScraperIter(text, max_chars, overlap, start) ==
    LET end    == Min2(start + max_chars, Len(text))
        window == Slice(text, start, end)
        cut    == ScraperCut(window, end = Len(text))
    IN [chunk |-> Strip(Slice(window, 0, cut)),
        next  |-> ScraperNextStart(start, cut, overlap),
        brk   |-> end >= Len(text)]

Iter(fn, text, max_chars, overlap, start) ==
    IF fn = "rag" THEN RagIter(text, max_chars, overlap, start)
    ELSE ScraperIter(text, max_chars, overlap, start)

\* the "dedupe / clean" loop: drop empty chunks and chunks equal to the last one kept
RECURSIVE DedupeFrom(_, _, _)
DedupeFrom(chunks, out, last) ==
    IF chunks = <<>> THEN out
    ELSE LET c == Head(chunks)
         IN IF c # <<>> /\ c # last
            THEN DedupeFrom(Tail(chunks), Append(out, c), c)
            ELSE DedupeFrom(Tail(chunks), out, last)

DedupeKeepAll(chunks) == chunks
Dedupe(chunks) == DedupeFrom(chunks, <<>>, <<>>)

(***************************************************************************)
(* SpecChunk: one call of _chunk_text, one action per loop iteration.      *)
(* A loop head that meets a start position it has met before repeats the   *)
(* same iterations for ever (an iteration depends on start alone): the     *)
(* call never returns, which the model records as pc "diverges".           *)
(***************************************************************************)
EnrichIdle ==
    /\ maxImages = 0 /\ maxConc = 0 /\ found = 0 /\ slow = 0
    /\ pagePc = "idle" /\ failedAt = "" /\ permits = 0
    /\ tpc = <<>> /\ tres = <<>> /\ tout = <<>> /\ blocked = 0 /\ descs = <<>>

IndexIdle ==
    /\ index = <<>> /\ runs = <<>> /\ started = 0 /\ log = {} /\ q = NoQuery

RecordIdle ==
    /\ rows = {} /\ files = {} /\ deleted = {}

AnswerIdle ==
    /\ ansRaw = <<>> /\ ansOut = <<>> /\ ansPc = "idle"

ChunkIdle ==
    /\ ckFn = None /\ ckInput = <<>> /\ ckMax = 0 /\ ckOverlap = 0 /\ ckText = <<>>
    /\ ckStart = 0 /\ ckChunks = <<>> /\ ckOut = <<>> /\ ckPc = "idle" /\ ckVisited = {}

InitChunk ==
    /\ ckFn \in {"rag", "scraper"}
    /\ ckInput \in Texts
    /\ ckMax \in 1..MaxChars
    /\ ckOverlap \in 0..MaxOverlap
    /\ ckText = <<>> /\ ckStart = 0 /\ ckChunks = <<>> /\ ckOut = <<>>
    /\ ckPc = "call" /\ ckVisited = {}
    /\ EnrichIdle /\ IndexIdle /\ AnswerIdle /\ RecordIdle

\* normalise; a text that fits max_chars returns at once
ChunkEnter ==
    /\ ckPc = "call"
    /\ ckText' = Normalize(ckInput)
    /\ IF Len(ckText') <= ckMax
       THEN /\ ckOut' = (IF ckText' # <<>> THEN <<ckText'>> ELSE <<>>)
            /\ ckPc' = "returned"
       ELSE /\ ckOut' = ckOut
            /\ ckPc' = "loop"
    /\ UNCHANGED <<ckFn, ckInput, ckMax, ckOverlap, ckStart, ckChunks, ckVisited>>
    /\ UNCHANGED <<enrichVars, indexVars, answerVars, recordVars>>

\* one evaluation of the loop condition and, when it holds, of the loop body
ChunkLoop ==
    /\ ckPc = "loop"
    /\ IF ckStart \in ckVisited
       THEN /\ ckPc' = "diverges"
            /\ UNCHANGED <<ckStart, ckChunks, ckVisited>>
       ELSE IF ~(ckStart < Len(ckText))
       THEN /\ ckPc' = "dedupe"
            /\ UNCHANGED <<ckStart, ckChunks, ckVisited>>
       ELSE LET it == Iter(ckFn, ckText, ckMax, ckOverlap, ckStart)
            IN /\ ckChunks' = (IF it.chunk # <<>> THEN Append(ckChunks, it.chunk) ELSE ckChunks)
               /\ ckStart' = it.next
               /\ ckVisited' = ckVisited \cup {ckStart}
               /\ ckPc' = (IF it.brk THEN "dedupe" ELSE "loop")
    /\ UNCHANGED <<ckFn, ckInput, ckMax, ckOverlap, ckText, ckOut>>
    /\ UNCHANGED <<enrichVars, indexVars, answerVars, recordVars>>

ChunkReturn ==
    /\ ckPc = "dedupe"
    /\ ckOut' = Dedupe(ckChunks)
    /\ ckPc' = "returned"
    /\ UNCHANGED <<ckFn, ckInput, ckMax, ckOverlap, ckText, ckStart, ckChunks, ckVisited>>
    /\ UNCHANGED <<enrichVars, indexVars, answerVars, recordVars>>

NextChunk == ChunkEnter \/ ChunkLoop \/ ChunkReturn

SpecChunk == InitChunk /\ [][NextChunk]_vars

(***************************************************************************)
(* SpecScenario: _chunk_text on a 10,000-character text with the defaults  *)
(* max_chars = 3000 and overlap = 400, at a scale of one model character   *)
(* for 200: a text of 50 characters, windows of 15, an overlap of 2.  The  *)
(* text is made of five stretches of ten characters: a run of one letter,  *)
(* ten different letters, or two sentences.                                *)
(***************************************************************************)
ScenarioChars == 50
ScenarioMaxChars == 15
ScenarioOverlap == 2

Stretches == {<<"a", "a", "a", "a", "a", "a", "a", "a", "a", "a">>,
              <<"b", "c", "d", "e", "f", "g", "h", "i", "j", "k">>,
              <<"l", "m", "n", ".", " ", "o", "p", "q", "r", "s">>}

ScenarioTexts ==
    {s1 \o s2 \o s3 \o s4 \o s5 : s1 \in Stretches, s2 \in Stretches, s3 \in Stretches,
                                  s4 \in Stretches, s5 \in Stretches}

InitScenario ==
    /\ ckFn \in {"rag", "scraper"}
    /\ ckInput \in ScenarioTexts
    /\ ckMax = ScenarioMaxChars
    /\ ckOverlap = ScenarioOverlap
    /\ ckText = <<>> /\ ckStart = 0 /\ ckChunks = <<>> /\ ckOut = <<>>
    /\ ckPc = "call" /\ ckVisited = {}
    /\ EnrichIdle /\ IndexIdle /\ AnswerIdle /\ RecordIdle

SpecScenario == InitScenario /\ [][NextChunk]_vars

(***************************************************************************)
(* The chunkers as functions, for the pipelines: the result of running the *)
(* loop from start, or diverges when the loop never ends.                  *)
(***************************************************************************)
RECURSIVE ChunkLoopFrom(_, _, _, _, _, _, _)
ChunkLoopFrom(fn, text, max_chars, overlap, start, chunks, visited) ==
    IF start \in visited THEN [diverges |-> TRUE, chunks |-> <<>>]
    ELSE IF ~(start < Len(text)) THEN [diverges |-> FALSE, chunks |-> Dedupe(chunks)]
    ELSE LET it == Iter(fn, text, max_chars, overlap, start)
             cs == IF it.chunk # <<>> THEN Append(chunks, it.chunk) ELSE chunks
         IN IF it.brk THEN [diverges |-> FALSE, chunks |-> Dedupe(cs)]
            ELSE ChunkLoopFrom(fn, text, max_chars, overlap, it.next, cs, visited \cup {start})

ChunkText(fn, input, max_chars, overlap) ==
    LET text == Normalize(input)
    IN IF Len(text) <= max_chars
       THEN [diverges |-> FALSE, chunks |-> IF text # <<>> THEN <<text>> ELSE <<>>]
       ELSE ChunkLoopFrom(fn, text, max_chars, overlap, 0, <<>>, {})

(***************************************************************************)
(* SpecEnrich: one call of scrape_and_index_website.  The call is made     *)
(* without a progress_callback, as every caller in app/routers makes it.   *)
(* The page's image tasks are coroutines on one asyncio event loop: a task *)
(* runs until it awaits, and while a task sits in a synchronous call no    *)
(* other coroutine of the loop runs (blocked names that task).             *)
(***************************************************************************)
MaxFound == 4
MaxImagesCap == 3
MaxConc == 2

\* the text the vision model returns for image i
DescText == <<"d1", "d2", "d3", "d4", "d5", "d6">>
Desc(i) == DescText[i]

\* how a download ends (scraper.py 195-217) and how the vision call ends (41-80)
DownloadFailures == {"timeout", "http_error", "too_large", "bad_image", "too_small"}
VisionOutcomes == {"described", "empty_text", "model_error"}
FailureKinds == {"timeout", "http_error", "bad_image", "model_error"}

\* images_to_process = image_urls[:max_images]
ImagesToProcess(nfound, max_images) == Min2(nfound, max_images)

\* asyncio.Semaphore(max_concurrent_images)
SemaphoreInitBroken(max_concurrent_images) == max_concurrent_images + 1
SemaphoreInit(max_concurrent_images) == max_concurrent_images

\* what _download_and_analyze_image returns when its body ends with outcome:
\* the description, or "" from every skip and every except clause
TaskReturnNoExcept(outcome, i) ==
    IF outcome = "described" THEN [kind |-> "str", val |-> Desc(i)]
    ELSE IF outcome \in FailureKinds THEN [kind |-> "exception", val |-> outcome]
    ELSE [kind |-> "str", val |-> ""]
TaskReturn(outcome, i) ==
    IF outcome = "described" THEN [kind |-> "str", val |-> Desc(i)]
    ELSE [kind |-> "str", val |-> ""]

NotReturned == [kind |-> "none", val |-> ""]

Tasks == DOMAIN tpc
InSection(i) == tpc[i] \in {"entered", "download", "vision"}
Waiting == {i \in Tasks : tpc[i] = "waiting"}

\* the loop over descriptions (scraper.py 419-424): the non-empty strings, tagged
\* with their 1-based position
RECURSIVE CollectFrom(_, _)
CollectFrom(results, i) ==
    IF i > Len(results) THEN <<>>
    ELSE IF results[i].kind = "str" /\ results[i].val # ""
         THEN <<[image |-> i, desc |-> results[i].val]>> \o CollectFrom(results, i + 1)
         ELSE CollectFrom(results, i + 1)

Collect(results) == CollectFrom(results, 1)

InitEnrich ==
    /\ maxImages \in 0..MaxImagesCap
    /\ maxConc \in 1..MaxConc
    /\ found \in 0..MaxFound
    /\ slow \in 0..MaxImagesCap
    /\ pagePc = "fetch" /\ failedAt = "" /\ permits = 0
    /\ tpc = <<>> /\ tres = <<>> /\ tout = <<>> /\ blocked = 0 /\ descs = <<>>
    /\ ChunkIdle /\ IndexIdle /\ AnswerIdle /\ RecordIdle

\* client.get(url) and raise_for_status(): any failure becomes RuntimeError
FetchFails ==
    /\ pagePc = "fetch"
    /\ pagePc' = "failed" /\ failedAt' = "fetch"
    /\ UNCHANGED <<maxImages, maxConc, found, slow, permits, tpc, tres, tout, blocked, descs>>
    /\ UNCHANGED <<chunkVars, indexVars, answerVars, recordVars>>

\* the page is fetched, its text and image URLs extracted, the image list capped
\* and one task per image handed to asyncio.gather
FetchAndDispatch ==
    /\ pagePc = "fetch"
    /\ LET n == ImagesToProcess(found, maxImages)
       IN IF n = 0
          THEN /\ pagePc' = "combine"
               /\ UNCHANGED <<permits, tpc, tres, tout>>
          ELSE /\ pagePc' = "gather"
               /\ permits' = SemaphoreInit(maxConc)
               /\ tpc' = [i \in 1..n |-> "new"]
               /\ tres' = [i \in 1..n |-> NotReturned]
               /\ tout' = [i \in 1..n |-> ""]
    /\ UNCHANGED <<maxImages, maxConc, found, slow, failedAt, blocked, descs>>
    /\ UNCHANGED <<chunkVars, indexVars, answerVars, recordVars>>

\* a task's first run, in creation order: "async with semaphore" enters when a
\* permit is free and nobody waits, and queues otherwise
TaskStart(i) ==
    /\ pagePc = "gather" /\ blocked = 0
    /\ tpc[i] = "new"
    /\ \A j \in Tasks : j < i => tpc[j] # "new"
    /\ IF permits > 0 /\ Waiting = {}
       THEN /\ permits' = permits - 1
            /\ tpc' = [tpc EXCEPT ![i] = "entered"]
       ELSE /\ permits' = permits
            /\ tpc' = [tpc EXCEPT ![i] = "waiting"]
    /\ UNCHANGED <<maxImages, maxConc, found, slow, pagePc, failedAt, tres, tout, blocked, descs>>
    /\ UNCHANGED <<chunkVars, indexVars, answerVars, recordVars>>

\* a released permit goes to the longest waiting task (tasks queue in index order)
TaskAdmit(i) ==
    /\ pagePc = "gather" /\ blocked = 0
    /\ tpc[i] = "waiting"
    /\ permits > 0
    /\ i = SetMin(Waiting)
    /\ permits' = permits - 1
    /\ tpc' = [tpc EXCEPT ![i] = "entered"]
    /\ UNCHANGED <<maxImages, maxConc, found, slow, pagePc, failedAt, tres, tout, blocked, descs>>
    /\ UNCHANGED <<chunkVars, indexVars, answerVars, recordVars>>

\* the task leaves "async with semaphore" returning what outcome gives
FinishKeepsPermitOnFailure(i, outcome) ==
    /\ tpc' = [tpc EXCEPT ![i] = "done"]
    /\ tout' = [tout EXCEPT ![i] = outcome]
    /\ tres' = [tres EXCEPT ![i] = TaskReturn(outcome, i)]
    /\ permits' = IF outcome = "described" THEN permits + 1 ELSE permits
Finish(i, outcome) ==
    /\ tpc' = [tpc EXCEPT ![i] = "done"]
    /\ tout' = [tout EXCEPT ![i] = outcome]
    /\ tres' = [tres EXCEPT ![i] = TaskReturn(outcome, i)]
    /\ permits' = permits + 1

\* an .svg URL is skipped before any download
TaskSkipSvg(i) ==
    /\ pagePc = "gather" /\ blocked = 0
    /\ tpc[i] = "entered"
    /\ Finish(i, "svg")
    /\ UNCHANGED <<maxImages, maxConc, found, slow, pagePc, failedAt, blocked, descs>>
    /\ UNCHANGED <<chunkVars, indexVars, answerVars, recordVars>>

\* await client.get(img_url, timeout=7.0, ...)
TaskDownload(i) ==
    /\ pagePc = "gather" /\ blocked = 0
    /\ tpc[i] = "entered"
    /\ tpc' = [tpc EXCEPT ![i] = "download"]
    /\ UNCHANGED <<maxImages, maxConc, found, slow, pagePc, failedAt, permits, tres, tout, blocked, descs>>
    /\ UNCHANGED <<chunkVars, indexVars, answerVars, recordVars>>

\* the download ends without an image to describe: timeout, HTTP error status,
\* more than 5 MB, not decodable, smaller than 50 px
TaskDownloadFails(i) ==
    /\ pagePc = "gather" /\ blocked = 0
    /\ tpc[i] = "download"
    /\ \E outcome \in DownloadFailures : Finish(i, outcome)
    /\ UNCHANGED <<maxImages, maxConc, found, slow, pagePc, failedAt, blocked, descs>>
    /\ UNCHANGED <<chunkVars, indexVars, answerVars, recordVars>>

\* the image is loaded and the task calls _describe_image, a synchronous call
\* made inside the coroutine
TaskCallsVision(i) ==
    /\ pagePc = "gather" /\ blocked = 0
    /\ tpc[i] = "download"
    /\ tpc' = [tpc EXCEPT ![i] = "vision"]
    /\ blocked' = i
    /\ UNCHANGED <<maxImages, maxConc, found, slow, pagePc, failedAt, permits, tres, tout, descs>>
    /\ UNCHANGED <<chunkVars, indexVars, answerVars, recordVars>>

\* _describe_image returns: the description, an empty text, or "" after an error
TaskVisionReturns(i) ==
    /\ pagePc = "gather" /\ blocked = i
    /\ tpc[i] = "vision"
    /\ \E outcome \in VisionOutcomes : Finish(i, outcome)
    /\ blocked' = 0
    /\ UNCHANGED <<maxImages, maxConc, found, slow, pagePc, failedAt, descs>>
    /\ UNCHANGED <<chunkVars, indexVars, answerVars, recordVars>>

\* asyncio.gather(*tasks, return_exceptions=True) returns when every task has
\* returned; the descriptions are collected
GatherReturnsOnFirstResult ==
    /\ pagePc = "gather" /\ blocked = 0
    /\ \E i \in Tasks : tpc[i] = "done"
    /\ descs' = Collect([i \in Tasks |-> IF tpc[i] = "done" THEN tres[i] ELSE [kind |-> "str", val |-> ""]])
    /\ pagePc' = "combine"
    /\ UNCHANGED <<maxImages, maxConc, found, slow, failedAt, permits, tpc, tres, tout, blocked>>
    /\ UNCHANGED <<chunkVars, indexVars, answerVars, recordVars>>
GatherReturns ==
    /\ pagePc = "gather" /\ blocked = 0
    /\ \A i \in Tasks : tpc[i] = "done"
    /\ descs' = Collect(tres)
    /\ pagePc' = "combine"
    /\ UNCHANGED <<maxImages, maxConc, found, slow, failedAt, permits, tpc, tres, tout, blocked>>
    /\ UNCHANGED <<chunkVars, indexVars, answerVars, recordVars>>

\* all_content is built and chunked, asyncio.to_thread(upsert_website_chunks) starts
\* and calls embed_chunks
CombineAndChunk ==
    /\ pagePc = "combine"
    /\ pagePc' = "indexing"
    /\ UNCHANGED <<maxImages, maxConc, found, slow, failedAt, permits, tpc, tres, tout, blocked, descs>>
    /\ UNCHANGED <<chunkVars, indexVars, answerVars, recordVars>>

\* embed_chunks returns the vectors inside upsert_website_chunks; index.upsert is called
EmbeddingReturns ==
    /\ pagePc = "indexing"
    /\ pagePc' = "upsert"
    /\ UNCHANGED <<maxImages, maxConc, found, slow, failedAt, permits, tpc, tres, tout, blocked, descs>>
    /\ UNCHANGED <<chunkVars, indexVars, answerVars, recordVars>>

\* index.upsert returns; upsert_website_chunks and the coroutine return
IndexingReturns ==
    /\ pagePc = "upsert"
    /\ pagePc' = "done"
    /\ UNCHANGED <<maxImages, maxConc, found, slow, failedAt, permits, tpc, tres, tout, blocked, descs>>
    /\ UNCHANGED <<chunkVars, indexVars, answerVars, recordVars>>

\* the embedding or the index service raises; the exception leaves the coroutine
IndexingFails ==
    /\ pagePc \in {"indexing", "upsert"}
    /\ pagePc' = "failed" /\ failedAt' = "indexing"
    /\ UNCHANGED <<maxImages, maxConc, found, slow, permits, tpc, tres, tout, blocked, descs>>
    /\ UNCHANGED <<chunkVars, indexVars, answerVars, recordVars>>

NextEnrich ==
    \/ FetchFails
    \/ FetchAndDispatch
    \/ \E i \in Tasks : TaskStart(i)
    \/ \E i \in Tasks : TaskAdmit(i)
    \/ \E i \in Tasks : TaskSkipSvg(i)
    \/ \E i \in Tasks : TaskDownload(i)
    \/ \E i \in Tasks : TaskDownloadFails(i)
    \/ \E i \in Tasks : TaskCallsVision(i)
    \/ \E i \in Tasks : TaskVisionReturns(i)
    \/ GatherReturns
    \/ CombineAndChunk
    \/ EmbeddingReturns
    \/ IndexingReturns
    \/ IndexingFails

SpecEnrich == InitEnrich /\ [][NextEnrich]_vars

(***************************************************************************)
(* FairEnrich: the event loop runs every coroutine that can run, and every *)
(* network or model call of a task other than the slow one ends.  Nothing  *)
(* is assumed about when, or whether, the slow task's download or vision   *)
(* call ends.  Whether the page fetch and the indexing succeed is the      *)
(* services' choice; that they end is assumed.                             *)
(***************************************************************************)
TaskIds == 1..MaxImagesCap

FairEnrich ==
    /\ SpecEnrich
    /\ WF_vars(FetchFails \/ FetchAndDispatch)
    /\ WF_vars(GatherReturns)
    /\ WF_vars(CombineAndChunk)
    /\ WF_vars(EmbeddingReturns \/ IndexingReturns \/ IndexingFails)
    /\ \A i \in TaskIds :
          /\ WF_vars(i \in Tasks /\ (TaskStart(i) \/ TaskAdmit(i)))
          /\ WF_vars(i \in Tasks /\ (TaskSkipSvg(i) \/ TaskDownload(i)))
          /\ WF_vars(i \in Tasks /\ i # slow /\ (TaskDownloadFails(i) \/ TaskCallsVision(i)))
          /\ WF_vars(i \in Tasks /\ i # slow /\ TaskVisionReturns(i))

(***************************************************************************)
(* FairAdmitted: FairEnrich where, besides, the download and the vision    *)
(* call of every task end, the slow one included: each admitted task       *)
(* finishes.                                                               *)
(***************************************************************************)
FairAdmitted ==
    /\ FairEnrich
    /\ \A i \in TaskIds :
          /\ WF_vars(i \in Tasks /\ (TaskDownloadFails(i) \/ TaskCallsVision(i)))
          /\ WF_vars(i \in Tasks /\ TaskVisionReturns(i))

(***************************************************************************)
(* SpecPdf: one call of rag._read_pdf_content_with_images, the image       *)
(* enrichment of a PDF document.  found is the number of images embedded   *)
(* in the PDF, maxImages the configured maximum image count; the images    *)
(* are described one after the other, in the order of extraction.          *)
(***************************************************************************)
InitPdf ==
    /\ maxImages \in 0..MaxImagesCap
    /\ found \in 0..MaxFound
    /\ pagePc = "pdf_extract"
    /\ maxConc = 0 /\ slow = 0 /\ failedAt = "" /\ permits = 0
    /\ tpc = <<>> /\ tres = <<>> /\ tout = <<>> /\ blocked = 0 /\ descs = <<>>
    /\ ChunkIdle /\ IndexIdle /\ AnswerIdle /\ RecordIdle

\* _extract_images_from_pdf: every embedded image that can be extracted and is at
\* least 50 px wide and high is kept (none when the PDF cannot be opened)
PdfExtractImages ==
    /\ pagePc = "pdf_extract"
    /\ \E kept \in 0..found :
          /\ tpc' = [i \in 1..kept |-> "new"]
          /\ tres' = [i \in 1..kept |-> NotReturned]
          /\ tout' = [i \in 1..kept |-> ""]
          /\ pagePc' = (IF kept = 0 THEN "pdf_done" ELSE "pdf_describe")
    /\ UNCHANGED <<maxImages, maxConc, found, slow, failedAt, permits, blocked, descs>>
    /\ UNCHANGED <<chunkVars, indexVars, answerVars, recordVars>>

\* one pass of "for img_base64, page_num in images": _describe_image is called and
\* returns the description, or "" when the model returns nothing or raises
PdfDescribeImage ==
    /\ pagePc = "pdf_describe"
    /\ \E i \in Tasks :
          /\ tpc[i] = "new"
          /\ \A j \in Tasks : j < i => tpc[j] = "done"
          /\ \E outcome \in VisionOutcomes :
                /\ tpc' = [tpc EXCEPT ![i] = "done"]
                /\ tout' = [tout EXCEPT ![i] = outcome]
                /\ tres' = [tres EXCEPT ![i] =
                              [kind |-> "str",
                               val |-> IF outcome = "described" THEN Desc(i) ELSE ""]]
    /\ UNCHANGED <<maxImages, maxConc, found, slow, pagePc, failedAt, permits, blocked, descs>>
    /\ UNCHANGED <<chunkVars, indexVars, answerVars, recordVars>>

\* the non-empty descriptions are appended to the text
PdfCombine ==
    /\ pagePc = "pdf_describe"
    /\ \A i \in Tasks : tpc[i] = "done"
    /\ descs' = Collect(tres)
    /\ pagePc' = "pdf_done"
    /\ UNCHANGED <<maxImages, maxConc, found, slow, failedAt, permits, tpc, tres, tout, blocked>>
    /\ UNCHANGED <<chunkVars, indexVars, answerVars, recordVars>>

NextPdf == PdfExtractImages \/ PdfDescribeImage \/ PdfCombine

SpecPdf == InitPdf /\ [][NextPdf]_vars

(***************************************************************************)
(* SpecIndex: ingestions (document_to_pinecone, and scrape_and_index_      *)
(* website from the combined content on) and queries of several tenants    *)
(* over one vector index.  An ingestion is a sequence of steps, one per    *)
(* call of an external service, and the steps of different ingestions      *)
(* interleave freely.                                                      *)
(*                                                                         *)
(* The pipelines call _chunk_text with its defaults, max_chars = 3000 and  *)
(* overlap = 400.  The model runs the same chunkers at the scale of its    *)
(* texts: ScaledMaxChars and ScaledOverlap stand for the two defaults, so  *)
(* that a text of a handful of characters spans several windows.           *)
(***************************************************************************)
MaxIngest == 2
MaxTopK == 2
ScaledMaxChars == 4
ScaledOverlap == 1

Tenants == {"T1", "T2"}
\* who uploads: the callers pass the tenant code of the user's company
Principals == {[tenant |-> "T1", user |-> "U1"],
               [tenant |-> "T1", user |-> "U2"],
               [tenant |-> "T2", user |-> "U3"]}
Docs == {"f1"}
Urls == {"u1"}

\* what extraction yields for a document, and the visible text of a page
Contents == {<<" ", "\n">>, <<"a", "b", "c", "d", "e", "f">>,
             <<"a", ".", " ", "b", "c", "d">>}
PageTexts == {<<>>, <<"x", "y">>}

\* the image_descriptions list of a page: entries f"\n[IMAGE {i+1}]: {desc}\n", each
\* written here as newline, the tag with the description, newline
PageImageDescs == {<<>>, <<"\n", "I1:d1", "\n">>}

\* f"Website: {url}\nTitle: {title}\n\n{text_content}" for a page without title, then
\* the visual-content banner and the descriptions when there are any; "W", "T" and
\* "V" stand for the two labels and the banner
WebAllContent(url, text_content, image_descriptions) ==
    <<"W", url, "\n", "T", "\n", "\n">> \o text_content
        \o (IF image_descriptions # <<>>
            THEN <<"\n", "\n", "V", "\n">> \o image_descriptions
            ELSE <<>>)

\* "if not content.strip()"
IsBlankEmptyOnly(content) == content = <<>>
IsBlank(content) == Strip(content) = <<>>

\* the embedding of a text: the service is opaque, the vector is named by its text
Vec(text) == [embedding_of |-> text]

\* hashlib.sha256(f"{tenant_code}:{doc_filename}:{i}".encode()).hexdigest(): the
\* digest is named by the string it is taken of (SHA-256 taken as injective)
DocIdPerCall(tenant_code, doc_filename, i) ==
    <<tenant_code, ":", doc_filename, ":", ToString(i), ":", ToString(started)>>
DocId(tenant_code, doc_filename, i) == <<tenant_code, ":", doc_filename, ":", ToString(i)>>

\* two page addresses whose MD5 digests begin with the same 12 hexadecimal digits
CollidingUrls == {"u2", "u3"}

\* hashlib.md5(url.encode()).hexdigest()[:12]: the first 48 bits of the digest, which
\* distinct addresses can share
UrlHash(url) == IF url \in CollidingUrls THEN "md5_c" ELSE "md5_" \o url

\* hashlib.sha256(f"{tenant_code}:website:{url_hash}:{i}".encode()).hexdigest()
WebId(tenant_code, url, i) ==
    <<tenant_code, ":", "website", ":", UrlHash(url), ":", ToString(i)>>

\* the namespace argument of index.upsert
UpsertNamespaceShared(tenant_code) == "T1"
UpsertNamespace(tenant_code) == tenant_code

\* the vectors list built by upsert_chunks; i is 0-based as in enumerate
DocVectors(tenant_code, user_code, doc_filename, chunks, embs) ==
    {[id |-> DocId(tenant_code, doc_filename, i),
      values |-> embs[i + 1],
      metadata |-> [tenant_code |-> tenant_code, user_code |-> user_code,
                    source_type |-> "document", doc |-> doc_filename,
                    chunk_index |-> i, text |-> chunks[i + 1]]]
        : i \in 0..(Min2(Len(chunks), Len(embs)) - 1)}

\* the vectors list built by upsert_website_chunks
WebVectors(tenant_code, user_code, url, chunks, embs) ==
    {[id |-> WebId(tenant_code, url, i),
      values |-> embs[i + 1],
      metadata |-> [tenant_code |-> tenant_code, user_code |-> user_code,
                    source_type |-> "website", url |-> url,
                    chunk_index |-> i, text |-> chunks[i + 1]]]
        : i \in 0..(Min2(Len(chunks), Len(embs)) - 1)}

RunVectors(r) ==
    IF r.kind = "document"
    THEN DocVectors(r.tenant, r.user, r.source, r.chunks, r.embs)
    ELSE WebVectors(r.tenant, r.user, r.source, r.chunks, r.embs)

\* index.upsert(vectors, namespace): a stored vector with the same id is replaced
Upserted(stored, vectors) ==
    {e \in stored : \A v \in vectors : v.id # e.id} \cup vectors

Slots == 1..MaxIngest
NoRun == [pc |-> "none"]

InitIndex ==
    /\ index = [ns \in Tenants |-> {}]
    /\ runs = [s \in Slots |-> NoRun]
    /\ started = 0
    /\ log = {}
    /\ q = NoQuery
    /\ ChunkIdle /\ EnrichIdle /\ AnswerIdle /\ RecordIdle

\* what a finished ingestion leaves in the history: result is the value returned to
\* the caller, None when an exception left the pipeline (it carries the service's
\* message and no count)
Summary(r, status, result, ids) ==
    [run |-> r.run, tenant |-> r.tenant, user |-> r.user, kind |-> r.kind, source |-> r.source,
     content |-> r.content, nchunks |-> Len(r.chunks), status |-> status,
     result |-> result, embedCalls |-> r.embedCalls, upsertCalls |-> r.upsertCalls,
     ids |-> ids]

NewRun(p, kind, source, content) ==
    [run |-> started + 1, tenant |-> p.tenant, user |-> p.user, kind |-> kind, source |-> source,
     content |-> content, pc |-> "start", chunks |-> <<>>, embs |-> <<>>,
     embedCalls |-> 0, upsertCalls |-> 0]

\* document_to_pinecone up to the call of embed_chunks: blank content returns 0,
\* other content is chunked (a chunker that never ends leaves the call hung)
StartDocument(p, doc, content) ==
    /\ started < MaxIngest
    /\ started' = started + 1
    /\ LET r  == NewRun(p, "document", doc, content)
           ch == ChunkText("rag", content, ScaledMaxChars, ScaledOverlap)
       IN IF IsBlank(content)
          THEN /\ log' = log \cup {Summary(r, "returned", 0, {})}
               /\ runs' = runs
          ELSE /\ log' = log
               /\ runs' = [runs EXCEPT ![started + 1] =
                             IF ch.diverges THEN [r EXCEPT !.pc = "hung"]
                             ELSE [r EXCEPT !.pc = "embed", !.chunks = ch.chunks]]
    /\ UNCHANGED <<index, q>>
    /\ UNCHANGED <<chunkVars, enrichVars, answerVars, recordVars>>

\* scrape_and_index_website from the combined content on, up to embed_chunks
StartWebsite(p, url, text_content, image_descriptions) ==
    /\ started < MaxIngest
    /\ started' = started + 1
    /\ LET all_content == WebAllContent(url, text_content, image_descriptions)
           r  == NewRun(p, "website", url, all_content)
           ch == ChunkText("scraper", all_content, ScaledMaxChars, ScaledOverlap)
       IN IF IsBlank(all_content)
          THEN /\ log' = log \cup {Summary(r, "returned", 0, {})}
               /\ runs' = runs
          ELSE /\ log' = log
               /\ runs' = [runs EXCEPT ![started + 1] =
                             IF ch.diverges THEN [r EXCEPT !.pc = "hung"]
                             ELSE [r EXCEPT !.pc = "embed", !.chunks = ch.chunks]]
    /\ UNCHANGED <<index, q>>
    /\ UNCHANGED <<chunkVars, enrichVars, answerVars, recordVars>>

\* embed_chunks returns one vector per chunk
EmbedReturns(s) ==
    /\ runs[s].pc = "embed"
    /\ LET r == runs[s]
       IN runs' = [runs EXCEPT ![s] =
                     [r EXCEPT !.pc = "upsert",
                               !.embs = [i \in 1..Len(r.chunks) |-> Vec(r.chunks[i])],
                               !.embedCalls = @ + 1]]
    /\ UNCHANGED <<index, started, log, q>>
    /\ UNCHANGED <<chunkVars, enrichVars, answerVars, recordVars>>

\* the embedding service fails: the exception leaves the pipeline
EmbedFailsRetried(s) ==
    /\ runs[s].pc = "embed"
    /\ runs[s].embedCalls < 2
    /\ runs' = [runs EXCEPT ![s] = [runs[s] EXCEPT !.embedCalls = @ + 1]]
    /\ UNCHANGED <<index, started, log, q>>
    /\ UNCHANGED <<chunkVars, enrichVars, answerVars, recordVars>>
EmbedFails(s) ==
    /\ runs[s].pc = "embed"
    /\ log' = log \cup {Summary([runs[s] EXCEPT !.embedCalls = @ + 1], "raised", None, {})}
    /\ runs' = [runs EXCEPT ![s] = NoRun]
    /\ UNCHANGED <<index, started, q>>
    /\ UNCHANGED <<chunkVars, enrichVars, answerVars, recordVars>>

\* index.upsert(vectors=vectors, namespace=tenant_code); return len(vectors)
UpsertReturns(s) ==
    /\ runs[s].pc = "upsert"
    /\ LET r  == runs[s]
           vs == RunVectors(r)
           ns == UpsertNamespace(r.tenant)
       IN /\ index' = [index EXCEPT ![ns] = Upserted(@, vs)]
          /\ log' = log \cup {Summary([r EXCEPT !.upsertCalls = @ + 1], "returned",
                                      Min2(Len(r.chunks), Len(r.embs)),
                                      {v.id : v \in vs})}
    /\ runs' = [runs EXCEPT ![s] = NoRun]
    /\ UNCHANGED <<started, q>>
    /\ UNCHANGED <<chunkVars, enrichVars, answerVars, recordVars>>

\* the index service fails: nothing is written, the exception leaves the pipeline
UpsertFails(s) ==
    /\ runs[s].pc = "upsert"
    /\ log' = log \cup {Summary([runs[s] EXCEPT !.upsertCalls = @ + 1], "raised", None, {})}
    /\ runs' = [runs EXCEPT ![s] = NoRun]
    /\ UNCHANGED <<index, started, q>>
    /\ UNCHANGED <<chunkVars, enrichVars, answerVars, recordVars>>

NextIndex ==
    \/ \E p \in Principals, doc \in Docs, content \in Contents : StartDocument(p, doc, content)
    \/ \E p \in Principals, url \in Urls, text \in PageTexts, ds \in PageImageDescs :
          StartWebsite(p, url, text, ds)
    \/ \E s \in Slots : EmbedReturns(s)
    \/ \E s \in Slots : EmbedFails(s)
    \/ \E s \in Slots : UpsertReturns(s)
    \/ \E s \in Slots : UpsertFails(s)

SpecIndex == InitIndex /\ [][NextIndex]_vars

(***************************************************************************)
(* Ingestions of several page addresses of one site, two of which share    *)
(* the first 12 digits of their MD5 digest.  The steps are those of        *)
(* SpecIndex; only the addresses offered differ.                           *)
(***************************************************************************)
SiteUrls == Urls \cup CollidingUrls

NextSite ==
    \/ \E p \in Principals, url \in SiteUrls, text \in PageTexts, ds \in PageImageDescs :
          StartWebsite(p, url, text, ds)
    \/ \E s \in Slots : EmbedReturns(s)
    \/ \E s \in Slots : EmbedFails(s)
    \/ \E s \in Slots : UpsertReturns(s)
    \/ \E s \in Slots : UpsertFails(s)

SpecSite == InitIndex /\ [][NextSite]_vars

\* the Document row upload_document leaves for an ingestion (documents.py 59-86):
\* num_chunks is set from the return value, and keeps its default 0 on an exception
DocumentRow(r) ==
    IF r.status = "returned"
    THEN [status |-> "indexed", num_chunks |-> r.result]
    ELSE [status |-> "error", num_chunks |-> 0]

(***************************************************************************)
(* rag.search and the query endpoints.                                     *)
(***************************************************************************)
\* similarity scores and min_score thresholds, in tenths
Scores == {4, 9}
MinScores == {3, 9}
SourceTypes == {"all", "documents", "websites"}
\* what a payload may carry: also an unknown source type and a score above 1.0
PayloadSourceTypes == SourceTypes \cup {"videos"}
PayloadMinScores == MinScores \cup {11}
UserCodes == {p.user : p \in Principals}

\* the filter search builds: a conjunction of field = value conditions
SearchFilterTenantOnly(tenant_code, filter_user_code, source_type) ==
    {<<"tenant_code", tenant_code>>}
SearchFilter(tenant_code, filter_user_code, source_type) ==
    {<<"tenant_code", tenant_code>>}
    \cup (IF source_type = "documents" THEN {<<"source_type", "document">>}
          ELSE IF source_type = "websites" THEN {<<"source_type", "website">>}
          ELSE {})
    \cup (IF filter_user_code # None THEN {<<"user_code", filter_user_code>>} ELSE {})

\* the namespace argument of index.query
QueryNamespace(tenant_code) == tenant_code

\* the index service: the stored vectors of a namespace that satisfy a filter
Satisfies(metadata, flt) ==
    \A c \in flt : c[1] \in DOMAIN metadata /\ metadata[c[1]] = c[2]

Matching(stored, flt) == {e \in stored : Satisfies(e.metadata, flt)}

\* the index service: the possible answers to query(top_k, filter): the top_k most
\* similar matching vectors (all of them when fewer match), best first; how similar
\* a stored vector is to the question is the service's business
IndexQuery(stored, flt, top_k) ==
    LET cands == Matching(stored, flt)
        k     == Min2(top_k, Cardinality(cands))
    IN {r \in [1..k -> [id : {e.id : e \in cands}, score : Scores]] :
           /\ \A i, j \in 1..k : i < j => r[i].id # r[j].id /\ r[i].score >= r[j].score}

\* a match as the handlers see it: id, score and the stored metadata
MatchesOf(stored, response) ==
    [i \in DOMAIN response |->
        [id |-> response[i].id, score |-> response[i].score,
         metadata |-> (CHOOSE e \in stored : e.id = response[i].id).metadata]]

\* the parameters of search, and the keyword arguments of its callers
SearchParams == {"tenant_code", "query", "top_k", "filter_user_code", "source_type"}
AskSearchKwargs == {"tenant_code", "query", "top_k", "filter_user_code", "source_type", "min_score"}
WidgetSearchKwargs == {"tenant_code", "query", "top_k", "filter_user_code", "source_type"}
TenantSearchKwargs == {"tenant_code", "query", "top_k", "filter_user_code"}

\* a Python call binds only when every keyword names a parameter (TypeError otherwise)
CallBinds(kwargs, params) == kwargs \subseteq params

\* m.metadata.get(key, default)
Get(metadata, key, default) == IF key \in DOMAIN metadata THEN metadata[key] ELSE default

\* the sources loop of the handlers: the URL of a website match, the filename otherwise
SourceOfMatchFilenameOnly(m) == Get(m.metadata, "doc", "unknown")
SourceOfMatch(m) ==
    IF Get(m.metadata, "source_type", "document") = "website"
    THEN Get(m.metadata, "url", "unknown")
    ELSE Get(m.metadata, "doc", "unknown")

ContextsOf(matches) == [i \in DOMAIN matches |-> Get(matches[i].metadata, "text", <<>>)]
SourcesOf(matches, top_k) ==
    SubSeq([i \in DOMAIN matches |-> SourceOfMatch(matches[i])], 1, Min2(top_k, Len(matches)))

\* "\n\n---\n".join(contexts[:12]) in synthesize_answer: the contexts that enter the
\* prompt.  ScaledContextCap stands for the 12, at the scale of MaxTopK
ScaledContextCap == 1
PromptContexts(contexts) == SubSeq(contexts, 1, Min2(Len(contexts), ScaledContextCap))

\* a request and what became of it.  searched: rag.search ran (one embedding call
\* and one index query); chat_called: synthesize_answer ran
QueryRecord(endpoint, tenant, user, top_k, source_type, min_score, offered, outcome, matches) ==
    [endpoint |-> endpoint, tenant |-> tenant, filter_user_code |-> user, top_k |-> top_k,
     source_type |-> source_type, min_score |-> min_score, offered |-> offered,
     outcome |-> outcome, matches |-> matches,
     contexts |-> IF outcome = "answer" THEN ContextsOf(matches) ELSE <<>>,
     sources |-> IF outcome = "answer" THEN SourcesOf(matches, top_k) ELSE <<>>,
     searched |-> outcome \in {"answer", "no_relevant_results_404", "fallback_answer"},
     chat_called |-> outcome = "answer"]

\* the payload checks of ask (query.py 37-49); min_score in tenths
AskPayloadValid(source_type, min_score) ==
    source_type \in {"all", "documents", "websites"} /\ 0 <= min_score /\ min_score <= 10

\* the payload check of widget_query and superadmin_company_query
WidgetPayloadValid(source_type) == source_type \in {"all", "documents", "websites"}

\* a handler from its payload checks on: rejected is the verdict of the checks,
\* kwargs the keywords of its search call, search_source_type the source_type
\* search runs with, empty_outcome what it does with an empty match list.
\* offered is what the index holds in answer to the query
Handle(endpoint, tenant, user, top_k, source_type, min_score, rejected, kwargs, search_source_type, empty_outcome) ==
    /\ \E offered \in IndexQuery(index[QueryNamespace(tenant)],
                                 SearchFilter(tenant, user, search_source_type), top_k) :
         LET matches == MatchesOf(index[QueryNamespace(tenant)], offered)
         IN q' = IF rejected
                 THEN QueryRecord(endpoint, tenant, user, top_k, source_type, min_score,
                                  offered, "invalid_400", <<>>)
                 ELSE IF ~CallBinds(kwargs, SearchParams)
                 THEN QueryRecord(endpoint, tenant, user, top_k, source_type, min_score,
                                  offered, "TypeError", <<>>)
                 ELSE IF matches = <<>>
                 THEN QueryRecord(endpoint, tenant, user, top_k, source_type, min_score,
                                  offered, empty_outcome, matches)
                 ELSE QueryRecord(endpoint, tenant, user, top_k, source_type, min_score,
                                  offered, "answer", matches)
    /\ UNCHANGED <<index, runs, started, log>>
    /\ UNCHANGED <<chunkVars, enrichVars, answerVars, recordVars>>

\* POST /query
Ask(p, user_filter, top_k, source_type, min_score) ==
    /\ q = NoQuery
    /\ Handle("ask", p.tenant, IF user_filter THEN p.user ELSE None, top_k, source_type, min_score,
              ~AskPayloadValid(source_type, min_score), AskSearchKwargs, source_type,
              "no_relevant_results_404")

\* POST /widget/query, for the company the widget key names
WidgetQuery(tenant, top_k, source_type, min_score) ==
    /\ q = NoQuery
    /\ Handle("widget", tenant, None, top_k, source_type, min_score,
              ~WidgetPayloadValid(source_type), WidgetSearchKwargs, source_type,
              "fallback_answer")

\* POST /widget/superadmin/query/{tenant_code}, for an existing company
SuperadminCompanyQuery(tenant, top_k, source_type, min_score) ==
    /\ q = NoQuery
    /\ Handle("superadmin", tenant, None, top_k, source_type, min_score,
              ~WidgetPayloadValid(source_type), WidgetSearchKwargs, source_type,
              "fallback_answer")

\* POST /tenant/{tenant_code}/query: no payload check, search called without source_type
QueryTenant(p, user_filter, top_k, source_type, min_score) ==
    /\ q = NoQuery
    /\ Handle("tenant", p.tenant, IF user_filter THEN p.user ELSE None, top_k, source_type,
              min_score, FALSE, TenantSearchKwargs, "all", "fallback_answer")

\* the response is sent
QueryReturns ==
    /\ q # NoQuery
    /\ q' = NoQuery
    /\ UNCHANGED <<index, runs, started, log>>
    /\ UNCHANGED <<chunkVars, enrichVars, answerVars, recordVars>>

(***************************************************************************)
(* SpecQuery: queries between ingestions.  An ingestion here is a whole    *)
(* pipeline call whose service calls succeed, taken as one step; blank     *)
(* content and content the chunker never finishes write nothing.           *)
(***************************************************************************)
QueryDocContents == {<<"x", "y">>}
QueryPageTexts == {<<>>}

IngestDocument(p, doc, content) ==
    /\ q = NoQuery
    /\ started < MaxIngest
    /\ ~IsBlank(content)
    /\ LET ch == ChunkText("rag", content, ScaledMaxChars, ScaledOverlap)
       IN /\ ~ch.diverges
          /\ index' = [index EXCEPT ![UpsertNamespace(p.tenant)] =
                Upserted(@, DocVectors(p.tenant, p.user, doc, ch.chunks,
                                       [i \in 1..Len(ch.chunks) |-> Vec(ch.chunks[i])]))]
    /\ started' = started + 1
    /\ UNCHANGED <<runs, log, q>>
    /\ UNCHANGED <<chunkVars, enrichVars, answerVars, recordVars>>

IngestWebsite(p, url, text_content, image_descriptions) ==
    /\ q = NoQuery
    /\ started < MaxIngest
    /\ LET all_content == WebAllContent(url, text_content, image_descriptions)
           ch == ChunkText("scraper", all_content, ScaledMaxChars, ScaledOverlap)
       IN /\ ~IsBlank(all_content)
          /\ ~ch.diverges
          /\ index' = [index EXCEPT ![UpsertNamespace(p.tenant)] =
                Upserted(@, WebVectors(p.tenant, p.user, url, ch.chunks,
                                       [i \in 1..Len(ch.chunks) |-> Vec(ch.chunks[i])]))]
    /\ started' = started + 1
    /\ UNCHANGED <<runs, log, q>>
    /\ UNCHANGED <<chunkVars, enrichVars, answerVars, recordVars>>

NextQuery ==
    \/ \E p \in Principals, doc \in Docs, content \in QueryDocContents : IngestDocument(p, doc, content)
    \/ \E p \in Principals, url \in Urls, text \in QueryPageTexts : IngestWebsite(p, url, text, <<>>)
    \/ \E p \in Principals, uf \in BOOLEAN, k \in 1..MaxTopK,
          st \in PayloadSourceTypes, ms \in PayloadMinScores : Ask(p, uf, k, st, ms)
    \/ \E t \in Tenants, k \in 1..MaxTopK, st \in PayloadSourceTypes, ms \in PayloadMinScores :
          WidgetQuery(t, k, st, ms)
    \/ \E t \in Tenants, k \in 1..MaxTopK, st \in PayloadSourceTypes, ms \in PayloadMinScores :
          SuperadminCompanyQuery(t, k, st, ms)
    \/ \E p \in Principals, uf \in BOOLEAN, k \in 1..MaxTopK,
          st \in PayloadSourceTypes, ms \in PayloadMinScores : QueryTenant(p, uf, k, st, ms)
    \/ QueryReturns

SpecQuery == InitIndex /\ [][NextQuery]_vars

(***************************************************************************)
(* SpecRecords: the relational records of documents and websites, the      *)
(* stored files, and the handlers that create, list and delete them,       *)
(* beside queries.  An ingestion here is the whole handler call; the       *)
(* embedding and index services may fail.                                  *)
(***************************************************************************)
\* User.role of the users of the model
RoleOf(user) == IF user = "U1" THEN "admin" ELSE "user"

\* stored_name of upload_document: tenant code, user suffix and a fresh identifier
StoredName(n) == "f" \o ToString(n)

\* what the uploaded files hold, and what the scraped pages show
RecordContents == {<<" ", "\n">>, <<"a", "b", "c", "d", "e", "f">>}
RecordPageTexts == {<<>>, <<"x", "y">>}

\* a Document or Website row
Row(id, kind, p, source, num_chunks, status) ==
    [id |-> id, kind |-> kind, tenant |-> p.tenant, user |-> p.user, source |-> source,
     num_chunks |-> num_chunks, status |-> status]

\* POST /documents/upload: the file is stored and the row added, then the content is
\* indexed; ok is whether the embedding and index services answer
UploadDocument(p, content, ok) ==
    /\ started < MaxIngest
    /\ started' = started + 1
    /\ LET name == StoredName(started + 1)
           ch   == ChunkText("rag", content, ScaledMaxChars, ScaledOverlap)
           embs == [i \in 1..Len(ch.chunks) |-> Vec(ch.chunks[i])]
           vs   == DocVectors(p.tenant, p.user, name, ch.chunks, embs)
       IN /\ ~ch.diverges
          /\ files' = files \cup {name}
          /\ IF IsBlank(content)
             THEN /\ rows' = rows \cup {Row(started + 1, "document", p, name, 0, "indexed")}
                  /\ index' = index
             ELSE IF ok
             THEN /\ rows' = rows \cup {Row(started + 1, "document", p, name,
                                            Cardinality(vs), "indexed")}
                  /\ index' = [index EXCEPT ![UpsertNamespace(p.tenant)] = Upserted(@, vs)]
             ELSE /\ rows' = rows \cup {Row(started + 1, "document", p, name, 0, "error")}
                  /\ index' = index
    /\ UNCHANGED <<runs, log, q, deleted>>
    /\ UNCHANGED <<chunkVars, enrichVars, answerVars>>

\* POST /websites/scrape: refused when the tenant has a row of the URL; the row is
\* added only when scraping and indexing succeeded
ScrapeWebsite(p, url, text_content, ok) ==
    /\ started < MaxIngest
    /\ started' = started + 1
    /\ LET existing    == \E w \in rows : w.kind = "website" /\ w.tenant = p.tenant /\ w.source = url
           all_content == WebAllContent(url, text_content, <<>>)
           ch   == ChunkText("scraper", all_content, ScaledMaxChars, ScaledOverlap)
           embs == [i \in 1..Len(ch.chunks) |-> Vec(ch.chunks[i])]
           vs   == WebVectors(p.tenant, p.user, url, ch.chunks, embs)
       IN /\ ~ch.diverges
          /\ IF existing \/ ~ok
             THEN UNCHANGED <<rows, index>>
             ELSE /\ rows' = rows \cup {Row(started + 1, "website", p, url,
                                            Cardinality(vs), "indexed")}
                  /\ index' = [index EXCEPT ![UpsertNamespace(p.tenant)] = Upserted(@, vs)]
    /\ UNCHANGED <<runs, log, q, files, deleted>>
    /\ UNCHANGED <<chunkVars, enrichVars, answerVars>>

\* the checks of the delete handlers: the row exists, belongs to the caller's
\* company, and the caller uploaded it or has one of the roles
MayDelete(p, row, kind, roles) ==
    /\ row \in rows /\ row.kind = kind
    /\ row.tenant = p.tenant
    /\ (row.user = p.user \/ RoleOf(p.user) \in roles)

\* DELETE /documents/{document_id}: the stored file and the row are removed
DeleteDocument(p, row) ==
    /\ MayDelete(p, row, "document", {"admin", "superadmin"})
    /\ files' = files \ {row.source}
    /\ rows' = rows \ {row}
    /\ deleted' = deleted \cup {row}
    /\ UNCHANGED <<index, runs, started, log, q>>
    /\ UNCHANGED <<chunkVars, enrichVars, answerVars>>

\* DELETE /websites/{website_id}: the row is removed
DeleteWebsiteWithVectors(p, row) ==
    /\ MayDelete(p, row, "website", {"admin", "superadmin"})
    /\ rows' = rows \ {row}
    /\ deleted' = deleted \cup {row}
    /\ index' = [index EXCEPT ![row.tenant] =
                    {e \in @ : ~(e.metadata.source_type = "website" /\ e.metadata.url = row.source)}]
    /\ UNCHANGED <<runs, started, log, q, files>>
    /\ UNCHANGED <<chunkVars, enrichVars, answerVars>>
DeleteWebsite(p, row) ==
    /\ MayDelete(p, row, "website", {"admin", "superadmin"})
    /\ rows' = rows \ {row}
    /\ deleted' = deleted \cup {row}
    /\ UNCHANGED <<index, runs, started, log, q, files>>
    /\ UNCHANGED <<chunkVars, enrichVars, answerVars>>

\* DELETE /tenant/{tenant_code}/websites/{website_id}, for a caller of that tenant
DeleteWebsiteTenant(p, row) ==
    /\ MayDelete(p, row, "website", {"admin"})
    /\ rows' = rows \ {row}
    /\ deleted' = deleted \cup {row}
    /\ UNCHANGED <<index, runs, started, log, q, files>>
    /\ UNCHANGED <<chunkVars, enrichVars, answerVars>>

\* GET /documents and GET /websites: the rows of the caller's company, of the
\* caller alone when asked so or when the caller is no admin
Listing(p, kind, mine_only) ==
    {r \in rows :
        /\ r.kind = kind /\ r.tenant = p.tenant
        /\ (mine_only \/ RoleOf(p.user) \notin {"admin", "superadmin"}) => r.user = p.user}
ListDocuments(p, my_docs_only) == Listing(p, "document", my_docs_only)
ListWebsites(p, my_websites_only) == Listing(p, "website", my_websites_only)

NextRecords ==
    \/ \E p \in Principals, content \in RecordContents, ok \in BOOLEAN : UploadDocument(p, content, ok)
    \/ \E p \in Principals, url \in Urls, text \in RecordPageTexts, ok \in BOOLEAN :
          ScrapeWebsite(p, url, text, ok)
    \/ \E p \in Principals, row \in rows : DeleteDocument(p, row)
    \/ \E p \in Principals, row \in rows : DeleteWebsite(p, row)
    \/ \E p \in Principals, row \in rows : DeleteWebsiteTenant(p, row)
    \/ \E t \in Tenants, st \in SourceTypes : WidgetQuery(t, MaxTopK, st, SetMin(MinScores))
    \/ QueryReturns

SpecRecords == InitIndex /\ [][NextRecords]_vars

(***************************************************************************)
(* synthesize_answer: the chat model's answer, stripped and then passed    *)
(* through _clean_answer_text.  The substitutions of _clean_answer_text    *)
(* are applied in the order of the source; those whose pattern needs a     *)
(* character outside AnswerAlphabet (zero-width characters, markdown       *)
(* emphasis, headers, citations, tags, lead-in phrases) leave every text   *)
(* of the model as it is.                                                  *)
(***************************************************************************)
MaxAnswerTokens == 5

\* what a chat answer is made of: a word, a blank, a line break, a bullet item
\* marker, a numbered item marker, a dash item marker
AnswerTokens == {<<"A">>, <<" ">>, <<"\n">>, <<"u2022", " ">>, <<"1", ".", " ">>, <<"-", " ">>}

RECURSIVE Concat(_)
Concat(ts) == IF ts = <<>> THEN <<>> ELSE Head(ts) \o Concat(Tail(ts))

AnswerTexts == {Concat(ts) : ts \in UNION {[1..n -> AnswerTokens] : n \in 0..MaxAnswerTokens}}

Digits == {"0", "1", "2", "3", "4", "5", "6", "7", "8", "9"}
DashMarkers == {"-", "*", "+"}
\* the characters U+2022, U+25CF, U+25CB and U+25E6, each one character of a text
BulletMarkers == {"u2022", "u25CF", "u25CB", "u25E6"}
Punctuation == {".", ",", ";", ":", "!", "?"}

\* the length of the longest run of characters of S in s from position p (1-based)
RECURSIVE RunLen(_, _, _)
RunLen(s, p, S) == IF p <= Len(s) /\ s[p] \in S THEN 1 + RunLen(s, p + 1, S) ELSE 0

\* re.sub(r'\n{3,}', '\n\n', text)
RECURSIVE CollapseNewlinesFrom(_, _)
CollapseNewlinesFrom(s, p) ==
    IF p > Len(s) THEN <<>>
    ELSE LET n == RunLen(s, p, {"\n"})
         IN IF n >= 3 THEN <<"\n", "\n">> \o CollapseNewlinesFrom(s, p + n)
            ELSE <<s[p]>> \o CollapseNewlinesFrom(s, p + 1)
CollapseNewlines(s) == CollapseNewlinesFrom(s, 1)

\* re.sub(r'[ \t]+', ' ', text)
RECURSIVE CollapseBlanksFrom(_, _)
CollapseBlanksFrom(s, p) ==
    IF p > Len(s) THEN <<>>
    ELSE LET n == RunLen(s, p, {" ", "\t"})
         IN IF n >= 1 THEN <<" ">> \o CollapseBlanksFrom(s, p + n)
            ELSE <<s[p]>> \o CollapseBlanksFrom(s, p + 1)
CollapseBlanks(s) == CollapseBlanksFrom(s, 1)

\* '^' under re.MULTILINE: the start of the text or right after a line break
AtLineStart(s, p) == p = 1 \/ s[p - 1] = "\n"

\* the length of the list marker at position p, 0 when there is none: one character
\* of markers, or for markers = Digits, (\d+)[.)]
MarkerLen(s, p, markers) ==
    IF markers = Digits
    THEN LET d == RunLen(s, p, Digits)
         IN IF d >= 1 /\ p + d <= Len(s) /\ s[p + d] \in {".", ")"} THEN d + 1 ELSE 0
    ELSE IF p <= Len(s) /\ s[p] \in markers THEN 1 ELSE 0

\* re.sub(r'^\s*M\s+', R, text, flags=re.MULTILINE) for M a marker: at a line start,
\* optional whitespace, the marker and the whitespace after it become the bullet
\* U+2022 and a blank for a bullet or dash, the number with ". " for a numbered item
RECURSIVE NormalizeMarkersFrom(_, _, _)
NormalizeMarkersFrom(s, p, markers) ==
    IF p > Len(s) THEN <<>>
    ELSE LET a == p + RunLen(s, p, Whitespace)
             m == MarkerLen(s, a, markers)
             w == RunLen(s, a + m, Whitespace)
         IN IF AtLineStart(s, p) /\ m >= 1 /\ w >= 1
            THEN (IF markers = Digits
                  THEN SubSeq(s, a, a + m - 2) \o <<".", " ">>
                  ELSE <<"u2022", " ">>)
                 \o NormalizeMarkersFrom(s, a + m + w, markers)
            ELSE <<s[p]>> \o NormalizeMarkersFrom(s, p + 1, markers)
NormalizeMarkers(s, markers) == NormalizeMarkersFrom(s, 1, markers)

\* re.sub(r'\s+([.,;:!?])', r'\1', text)
RECURSIVE DropSpaceBeforePunctuationFrom(_, _)
DropSpaceBeforePunctuationFrom(s, p) ==
    IF p > Len(s) THEN <<>>
    ELSE LET w == RunLen(s, p, Whitespace)
         IN IF w >= 1 /\ p + w <= Len(s) /\ s[p + w] \in Punctuation
            THEN <<s[p + w]>> \o DropSpaceBeforePunctuationFrom(s, p + w + 1)
            ELSE <<s[p]>> \o DropSpaceBeforePunctuationFrom(s, p + 1)
DropSpaceBeforePunctuation(s) == DropSpaceBeforePunctuationFrom(s, 1)

\* _clean_answer_text
CleanAnswerText(text) ==
    LET t1 == CollapseNewlines(text)
        t2 == CollapseBlanks(t1)
        t3 == NormalizeMarkers(t2, DashMarkers)
        t4 == NormalizeMarkers(t3, BulletMarkers)
        t5 == NormalizeMarkers(t4, Digits)
        t6 == DropSpaceBeforePunctuation(t5)
    IN Strip(t6)

InitAnswer ==
    /\ ansRaw = <<>> /\ ansOut = <<>> /\ ansPc = "chat"
    /\ ChunkIdle /\ EnrichIdle /\ IndexIdle /\ RecordIdle

\* oai.chat.completions.create returns; raw_answer is its content, stripped
ChatReturns ==
    /\ ansPc = "chat"
    /\ \E content \in AnswerTexts : ansRaw' = Strip(content)
    /\ ansPc' = "clean"
    /\ UNCHANGED ansOut
    /\ UNCHANGED <<chunkVars, enrichVars, indexVars, recordVars>>

\* cleaned_answer = _clean_answer_text(raw_answer); return cleaned_answer
CleanAndReturn ==
    /\ ansPc = "clean"
    /\ ansOut' = CleanAnswerText(ansRaw)
    /\ ansPc' = "returned"
    /\ UNCHANGED ansRaw
    /\ UNCHANGED <<chunkVars, enrichVars, indexVars, recordVars>>

NextAnswer == ChatReturns \/ CleanAndReturn

SpecAnswer == InitAnswer /\ [][NextAnswer]_vars

(***************************************************************************)
(* Claims about the chunkers (SpecChunk).                                  *)
(***************************************************************************)

\* chunks, in order, laid over text from position p on: chunk i may begin anywhere
\* inside or right after what is already covered (its overlap with the text so far,
\* counted once), and the last chunk must end at the end of the text
RECURSIVE CoversFrom(_, _, _, _)
CoversFrom(chunks, text, i, p) ==
    IF i > Len(chunks) THEN p = Len(text)
    ELSE LET c == chunks[i]
         IN \E b \in Max2(0, p - Len(c))..p :
               /\ b + Len(c) <= Len(text)
               /\ Slice(text, b, b + Len(c)) = c
               /\ CoversFrom(chunks, text, i + 1, b + Len(c))

Reconstructs(chunks, text) == CoversFrom(chunks, text, 1, 0)

\* C4: the document chunker rag._chunk_text terminates for every text, max_chars > 0
\* and overlap >= 0: its loop head never meets a start position a second time, so the
\* call never runs for ever.
C4_RagChunkerTerminates ==
    ckFn = "rag" =>
        /\ ckPc # "diverges"
        /\ (ckPc = "loop" => ckStart \notin ckVisited)

\* C10: for every input whose normalised text is longer than max_chars, the chunks
\* returned by either chunker, concatenated in order with each overlap counted once,
\* reproduce the normalised text.
C10_ChunksReconstructText ==
    (ckPc = "returned" /\ Len(ckText) > ckMax) => Reconstructs(ckOut, ckText)

\* the cut positions a window allows: its whole length, or a sentence terminator
\* followed by a space (the cut falls before or after the terminator)
BoundaryCuts(window) ==
    {k \in 0..(Len(window) - 2) :
        window[k + 1] \in {".", "?", "!"} /\ window[k + 2] = " "}

AllowedPieces(window) ==
    IF BoundaryCuts(window) = {}
    THEN {Strip(window)}
    ELSE {Strip(window)} \cup {Strip(Slice(window, 0, k)) : k \in BoundaryCuts(window)}
                         \cup {Strip(Slice(window, 0, k + 1)) : k \in BoundaryCuts(window)}

\* C11: every chunk either chunker produces has at most max_chars characters, and the
\* piece a loop pass takes from its window is the window itself, or the window up to
\* a sentence boundary, with surrounding whitespace trimmed: nothing else is cut off.
C11_ChunksWithinMaxChars ==
    /\ [](/\ \A i \in DOMAIN ckChunks : Len(ckChunks[i]) <= ckMax
          /\ \A i \in DOMAIN ckOut : Len(ckOut[i]) <= ckMax)
    /\ [][(ckPc = "loop" /\ ckVisited' # ckVisited) =>
             LET window == Slice(ckText, ckStart, ckStart + ckMax)
             IN \E piece \in AllowedPieces(window) :
                   ckChunks' = IF piece # <<>> THEN Append(ckChunks, piece) ELSE ckChunks]_vars

\* a long text came back as a full-length chunk and a chunk cut short at a boundary
C11_FullChunkAndBoundaryCut ==
    /\ ckPc = "returned" /\ Len(ckText) > ckMax
    /\ \E i \in DOMAIN ckOut : Len(ckOut[i]) = ckMax
    /\ \E i \in DOMAIN ckOut : Len(ckOut[i]) < ckMax
    /\ BoundaryCuts(ckText) # {}

\* C12: in every list _chunk_text returns, no chunk is empty and no two adjacent
\* chunks are the same text.
C12_NoEmptyNoAdjacentDuplicate ==
    ckPc = "returned" =>
        /\ \A i \in DOMAIN ckOut : ckOut[i] # <<>>
        /\ \A i \in 1..(Len(ckOut) - 1) : ckOut[i] # ckOut[i + 1]

\* the loop produced the same chunk twice in a row and the returned list dropped one
C12_DuplicateWasCollapsed ==
    /\ ckPc = "returned"
    /\ \E i \in 1..(Len(ckChunks) - 1) : ckChunks[i] = ckChunks[i + 1]
    /\ Len(ckOut) < Len(ckChunks)

BlankText(t) == \A i \in DOMAIN t : t[i] \in Whitespace

\* single spaces only, none at either end
InNormalForm(t) ==
    /\ \A i \in DOMAIN t : t[i] \in Whitespace => t[i] = " "
    /\ \A i \in 1..(Len(t) - 1) : ~(t[i] = " " /\ t[i + 1] = " ")
    /\ t # <<>> => (t[1] # " " /\ t[Len(t)] # " ")

\* the text without its whitespace, and where its words begin
Letters(t) == SelectSeq(t, LAMBDA c : c \notin Whitespace)
WordStarts(t) ==
    {Cardinality({j \in 1..i : t[j] \notin Whitespace}) :
        i \in {k \in 2..Len(t) : t[k] \notin Whitespace /\ t[k - 1] \in Whitespace}}
SameWords(s, t) ==
    /\ Letters(s) = Letters(t)
    /\ WordStarts(s) \ {1} = WordStarts(t) \ {1}

\* C13 as stated: a text t of at most max_chars characters comes back as [t], a blank
\* one as [], and chunking the returned chunk again gives the same list.
C13_ShortTextReturnedAsIs ==
    (ckPc = "returned" /\ Len(ckInput) <= ckMax) =>
        /\ ckOut = (IF BlankText(ckInput) THEN <<>> ELSE <<ckInput>>)
        /\ ckOut # <<>> =>
              ChunkText(ckFn, ckOut[1], ckMax, ckOverlap) = [diverges |-> FALSE, chunks |-> ckOut]

\* C13, amended: a text t of at most max_chars characters comes back as the one-element
\* list of its normalised form (the same words separated by single spaces, no space at
\* either end; t itself when t has that form already), a blank one as [], and chunking
\* the returned chunk again gives the same list.
C13_ShortTextReturnedNormalized ==
    (ckPc = "returned" /\ Len(ckInput) <= ckMax) =>
        /\ BlankText(ckInput) => ckOut = <<>>
        /\ ~BlankText(ckInput) =>
              /\ Len(ckOut) = 1
              /\ InNormalForm(ckOut[1])
              /\ SameWords(ckOut[1], ckInput)
        /\ (InNormalForm(ckInput) /\ ckInput # <<>>) => ckOut = <<ckInput>>
        /\ ckOut # <<>> =>
              ChunkText(ckFn, ckOut[1], ckMax, ckOverlap) = [diverges |-> FALSE, chunks |-> ckOut]

\* a short text with whitespace to normalise came back as one chunk
C13_ShortTextWasNormalized ==
    /\ ckPc = "returned" /\ Len(ckInput) <= ckMax
    /\ ~BlankText(ckInput) /\ ~InNormalForm(ckInput)
    /\ Len(ckOut) = 1

\* chunk c lies in text at 0-based position b
OccursAt(c, text, b) == b + Len(c) <= Len(text) /\ Slice(text, b, b + Len(c)) = c

\* the chunks lie in the text one after the other, each beginning inside the one before
ConsecutiveOverlap(chunks, text) ==
    \E b \in [DOMAIN chunks -> 0..Len(text)] :
        /\ \A i \in DOMAIN chunks : OccursAt(chunks[i], text, b[i])
        /\ \A i \in 1..(Len(chunks) - 1) :
              b[i] < b[i + 1] /\ b[i + 1] < b[i] + Len(chunks[i])

\* C14: chunking a 10,000-character plain text with max_chars = 3000 and overlap = 400
\* (here at the scale of SpecScenario) ends with exactly 4 chunks, each of at most
\* max_chars characters, every chunk beginning inside the chunk before it.
C14_TenThousandCharsGiveFourChunks ==
    (Len(ckInput) = ScenarioChars /\ ckMax = ScenarioMaxChars /\ ckOverlap = ScenarioOverlap) =>
        /\ ckPc # "diverges"
        /\ ckPc = "returned" =>
              /\ Len(ckOut) = 4
              /\ \A i \in DOMAIN ckOut : Len(ckOut[i]) <= ckMax
              /\ ConsecutiveOverlap(ckOut, ckText)

(***************************************************************************)
(* Claims about the image enrichment (SpecEnrich, FairEnrich).             *)
(***************************************************************************)
InFlight == {i \in Tasks : InSection(i)}

\* C2: at every instant of scrape_and_index_website the number of image tasks inside
\* the semaphore-guarded section (download plus vision call) is at most
\* max_concurrent_images, also when there are more images than that.
C2_AtMostMaxConcurrentInSection ==
    pagePc # "idle" => Cardinality(InFlight) <= maxConc

\* more images than permits, every permit taken, a task queueing
C2_GateFullWithWaiter ==
    /\ pagePc = "gather"
    /\ Len(tpc) > maxConc
    /\ Cardinality(InFlight) = maxConc
    /\ Waiting # {}

PastGather ==
    \/ pagePc \in {"combine", "indexing", "upsert", "done"}
    \/ pagePc = "failed" /\ failedAt = "indexing"

\* C5: an image task that fails (download timeout, HTTP error, decode error, vision
\* model error) returns the empty description; once the enrichment pass is over every
\* task has run to completion and every non-empty description of a sibling is in the
\* result under its position; scrape_and_index_website never raises because of an image.
C5_ImageFailureIsolated ==
    /\ \A i \in Tasks :
          (tpc[i] = "done" /\ tout[i] \in FailureKinds) => tres[i] = [kind |-> "str", val |-> ""]
    /\ PastGather =>
          /\ \A i \in Tasks : tpc[i] = "done"
          /\ \A i \in Tasks :
                tout[i] = "described" <=>
                    \E k \in DOMAIN descs : descs[k] = [image |-> i, desc |-> Desc(i)]
          /\ \A k \in DOMAIN descs : descs[k].image \in Tasks /\ descs[k].desc # ""
    /\ pagePc = "failed" => failedAt \in {"fetch", "indexing"}

\* the pass ended with one image failed and a sibling's description kept
C5_FailedImageBesideDescribedOne ==
    /\ pagePc = "indexing"
    /\ \E i, j \in Tasks :
          /\ tout[i] \in FailureKinds
          /\ tout[j] = "described"
          /\ \E k \in DOMAIN descs : descs[k].image = j

\* C6: for every max_concurrent_images >= 1, an image task that is slow or never
\* completes does not keep its siblings from being admitted and completing: whatever
\* the slow task does, every other dispatched task eventually completes.
C6_SiblingsOfSlowTaskComplete ==
    [](pagePc = "gather" => <>(\A j \in Tasks : j # slow => tpc[j] = "done"))

\* C7: the enrichment pass always ends: the coordinator does not wait for ever for
\* image tasks that have not finished, and the pipeline goes on to chunking and indexing.
C7_EnrichmentPassEnds ==
    [](pagePc = "gather" => <>(pagePc # "gather"))


(***************************************************************************)
(* Claims about ingestion and search (SpecIndex, SpecQuery).               *)
(***************************************************************************)
\* C1: every vector is upserted into the namespace equal to its own
\* metadata.tenant_code; a search for tenant T reads only namespace T, with a
\* filter that requires tenant_code = T; so no vector a search for T can return
\* carries another tenant, also when both tenants hold identical text.
C1_TenantIsolation ==
    /\ \A ns \in DOMAIN index : \A e \in index[ns] : e.metadata.tenant_code = ns
    /\ \A t \in Tenants, u \in UserCodes \cup {None}, st \in SourceTypes :
          /\ QueryNamespace(t) = t
          /\ <<"tenant_code", t>> \in SearchFilter(t, u, st)
          /\ \A e \in Matching(index[QueryNamespace(t)], SearchFilter(t, u, st)) :
                e.metadata.tenant_code = t

\* both tenants hold a vector of the same text and a search for T1 has matches
C1_BothTenantsHoldSameText ==
    /\ \E e1 \in index["T1"], e2 \in index["T2"] : e1.metadata.text = e2.metadata.text
    /\ Matching(index[QueryNamespace("T1")], SearchFilter("T1", None, "all")) # {}

SameInputs(r1, r2) ==
    /\ r1.tenant = r2.tenant /\ r1.kind = r2.kind
    /\ r1.source = r2.source /\ r1.content = r2.content

SourceType(kind) == IF kind = "document" THEN "document" ELSE "website"

EntriesOfChunk(r, i) ==
    {e \in index[r.tenant] :
        /\ e.metadata.source_type = SourceType(r.kind)
        /\ Get(e.metadata, IF r.kind = "document" THEN "doc" ELSE "url", None) = r.source
        /\ e.metadata.chunk_index = i}

\* C3: ingesting the same (tenant, source) with unchanged content produces the
\* same vector IDs on every run, one ID per chunk, and the index then holds
\* exactly one entry per chunk index of that source.
C3_ReingestionIsIdempotent ==
    /\ \A r1, r2 \in log :
          (r1.status = "returned" /\ r2.status = "returned" /\ SameInputs(r1, r2))
              => r1.ids = r2.ids
    /\ \A r \in log :
          r.status = "returned" =>
              /\ Cardinality(r.ids) = r.nchunks
              /\ \A i \in 0..(r.nchunks - 1) : Cardinality(EntriesOfChunk(r, i)) = 1

\* the same source with the same several-chunk content has been ingested twice
C3_SameSourceIngestedTwice ==
    \E r1, r2 \in log :
        /\ r1.run # r2.run /\ SameInputs(r1, r2)
        /\ r1.status = "returned" /\ r2.status = "returned"
        /\ r1.nchunks >= 2

WhitespaceOnly(content) == \A i \in DOMAIN content : content[i] \in Whitespace

\* C9: ingesting a document whose extracted text is empty or only whitespace
\* returns a chunk count of 0 and makes no embedding call and no index call.
C9_BlankDocumentIndexesNothing ==
    /\ \A r \in log :
          (r.kind = "document" /\ WhitespaceOnly(r.content)) =>
              /\ r.status = "returned" /\ r.result = 0
              /\ r.embedCalls = 0 /\ r.upsertCalls = 0 /\ r.ids = {}
    /\ \A s \in Slots :
          (runs[s].pc # "none" /\ runs[s].kind = "document") => ~WhitespaceOnly(runs[s].content)

\* a document of whitespace alone has been ingested and returned 0
C9_WhitespaceDocumentReturnedZero ==
    \E r \in log :
        /\ r.kind = "document" /\ r.content # <<>> /\ WhitespaceOnly(r.content)
        /\ r.status = "returned" /\ r.result = 0

\* C8: an ask query with valid parameters passes to answer synthesis only
\* matches whose score is at least min_score, and when every match the index
\* returns scores below min_score it ends with the no-relevant-results signal
\* and never calls the chat model.
C8_AskFiltersByMinScore ==
    (q.endpoint = "ask" /\ AskPayloadValid(q.source_type, q.min_score)) =>
        /\ q.outcome \in {"answer", "no_relevant_results_404"}
        /\ \A i \in DOMAIN q.matches : q.matches[i].score >= q.min_score
        /\ (\A i \in DOMAIN q.offered : q.offered[i].score < q.min_score)
              => (q.outcome = "no_relevant_results_404" /\ ~q.chat_called)


\* C15: at every query entry point a request whose source_type is not one of
\* all/documents/websites, or whose min_score lies outside [0.0, 1.0], is rejected
\* before any embedding, index or chat-completion call.
C15_InvalidParametersRejectedFirst ==
    (/\ q # NoQuery
     /\ \/ q.source_type \notin {"all", "documents", "websites"}
        \/ q.min_score < 0
        \/ q.min_score > 10) =>
        (q.outcome = "invalid_400" /\ ~q.searched /\ ~q.chat_called)

\* C16: at every query entry point, when nothing in the index matches the request the
\* chat model is not called and the caller gets the no-relevant-results outcome (404
\* from ask, the fallback sentence with no sources from the widget and tenant-path
\* endpoints); an answer is synthesized only from a non-empty match list.
C16_NoMatchesNoSynthesis ==
    q # NoQuery =>
        /\ (q.outcome # "invalid_400" /\ q.offered = <<>>) =>
              /\ ~q.chat_called
              /\ q.sources = <<>>
              /\ q.outcome = (IF q.endpoint = "ask" THEN "no_relevant_results_404"
                              ELSE "fallback_answer")
        /\ q.chat_called => (q.searched /\ q.matches # <<>>)

\* C17: the sources of every answer are at most top_k, one per match in the order the
\* index returned the matches (best score first), the URL for a website match and the
\* stored filename for a document match.
C17_SourcesFollowMatches ==
    (q # NoQuery /\ q.outcome = "answer") =>
        /\ Len(q.sources) <= q.top_k
        /\ Len(q.sources) = Len(q.offered)
        /\ \A i \in DOMAIN q.sources :
              LET e == CHOOSE e \in index[q.tenant] : e.id = q.offered[i].id
              IN q.sources[i] = IF e.metadata.source_type = "website"
                                THEN e.metadata.url ELSE e.metadata.doc
        /\ \A i \in 1..(Len(q.offered) - 1) : q.offered[i].score >= q.offered[i + 1].score

\* an answer built on a website match and a document match
C17_AnswerCitesPageAndDocument ==
    /\ q # NoQuery /\ q.outcome = "answer"
    /\ \E i, j \in DOMAIN q.matches :
          /\ q.matches[i].metadata.source_type = "website"
          /\ q.matches[j].metadata.source_type = "document"
    /\ Len(q.sources) = 2


\* the index entries a logged ingestion wrote: its one upsert call writes all of its
\* vectors or, failing, none
Written(r) == Cardinality(r.ids)

\* C18: when the embedding service fails during an ingestion the failure reaches the
\* caller, that ingestion writes nothing to the index, and nothing is retried: an
\* ingestion makes at most one embedding call and at most one upsert call.
C18_EmbeddingFailureNotRetried ==
    /\ [](/\ \A r \in log : r.embedCalls <= 1 /\ r.upsertCalls <= 1
          /\ \A s \in Slots : runs[s].pc # "none" =>
                (runs[s].embedCalls <= 1 /\ runs[s].upsertCalls = 0)
          /\ \A r1, r2 \in log : r1.run = r2.run => r1 = r2
          /\ \A r \in log : (r.status = "raised" /\ r.upsertCalls = 0) =>
                (r.embedCalls = 1 /\ r.ids = {}))
    /\ [][/\ \A s \in Slots :
               (runs[s].pc = "embed" /\ runs'[s].pc # "upsert" /\ runs'[s] # runs[s]) =>
                   /\ index' = index
                   /\ runs'[s] = NoRun
                   /\ \E r \in log' \ log : r.run = runs[s].run /\ r.status = "raised"
          /\ index' # index =>
               \E r \in log' \ log : r.status = "returned" /\ r.upsertCalls = 1]_vars

\* an ingestion ended by an embedding failure while the tenant's namespace holds
\* what another ingestion wrote
C18_EmbeddingFailedBesideStoredData ==
    \E r \in log :
        /\ r.status = "raised" /\ r.embedCalls = 1 /\ r.upsertCalls = 0 /\ r.nchunks >= 1
        /\ index[r.tenant] # {}

\* C19: an ingestion that fails at the embedding or index step reports to its caller
\* the number of chunks it had written, and the artifact record's chunk count after the
\* failure is the number of index entries that ingestion wrote.
C19_FailureCarriesWrittenCount ==
    \A r \in log :
        r.status = "raised" =>
            /\ r.result # None
            /\ r.result = Written(r)
            /\ r.kind = "document" => DocumentRow(r).num_chunks = Written(r)


\* the images of the ingestion for which the vision model has been called
VisionCalls ==
    Cardinality({i \in Tasks : tpc[i] = "vision" \/ tout[i] \in VisionOutcomes})

\* C20: in every ingestion path that enriches images (website scraping, PDF documents)
\* the number of images sent to the vision model during one ingestion is at most the
\* configured maximum image count, however many images the source contains.
C20_VisionCallsWithinMaxImages ==
    pagePc # "idle" => VisionCalls <= maxImages


\* the source identifier an index entry was stored under
SourceOfEntry(e) == SourceOfMatch(e)

\* C21: when ingestions of the same (tenant, source) with different content run
\* concurrently, each applied upsert leaves every chunk id it writes holding its own
\* complete entry (so after both the last applied upsert's entries stand), no stored
\* entry pairs the vector of one run with the text of another, and an upsert never
\* replaces or removes an entry stored under another source identifier.
C21_LastWriterWinsPerChunkId ==
    /\ [](\A ns \in DOMAIN index :
            /\ \A e \in index[ns] : e.values = Vec(e.metadata.text)
            /\ \A e1, e2 \in index[ns] : e1.id = e2.id => e1 = e2)
    /\ [][\A s \in Slots :
            UpsertReturns(s) =>
                LET r == runs[s]
                IN /\ \A v \in RunVectors(r) : v \in index'[UpsertNamespace(r.tenant)]
                   /\ \A ns \in DOMAIN index : \A e \in index[ns] :
                         (ns # r.tenant \/ e.metadata.source_type # SourceType(r.kind)
                            \/ SourceOfEntry(e) # r.source) => e \in index'[ns]]_vars


\* a list item marker of the cleaned answer begins at position i: a bullet followed
\* by a blank, or a number set off from the text before it and followed by ". "
BulletMarkerAt(c, i) == c[i] \in BulletMarkers /\ i < Len(c) /\ c[i + 1] = " "
NumberMarkerAt(c, i) ==
    /\ c[i] \in Digits
    /\ (i = 1 \/ c[i - 1] \in Whitespace)
    /\ LET d == RunLen(c, i, Digits)
       IN i + d + 1 <= Len(c) /\ c[i + d] = "." /\ c[i + d + 1] = " "

\* C22: in the answer returned by synthesize_answer every bullet marker and every
\* numbered-list marker starts a line, also when the chat model put several list
\* items on one line.
C22_ListMarkersStartLines ==
    ansPc = "returned" =>
        \A i \in 1..Len(ansOut) :
            (BulletMarkerAt(ansOut, i) \/ NumberMarkerAt(ansOut, i)) => AtLineStart(ansOut, i)


\* C23: in scraper._chunk_text the window start strictly increases on every loop
\* iteration, for every max_chars >= 1 and overlap >= 0 (overlap >= max_chars
\* included): the loop body runs at most len(text) times, never from a start it has
\* run from before, and the call never runs for ever.
C23_ScraperStartStrictlyIncreases ==
    /\ [](ckFn = "scraper" =>
            /\ ckPc # "diverges"
            /\ Cardinality(ckVisited) <= Len(ckText)
            /\ \A v \in ckVisited : v < ckStart)
    /\ [][(ckFn = "scraper" /\ ckPc = "loop" /\ ckStart < Len(ckText)) =>
             ckStart' > ckStart]_vars

\* the website chunker has returned after several iterations with overlap >= max_chars
C23_ScraperReturnedWithLargeOverlap ==
    /\ ckFn = "scraper" /\ ckOverlap >= ckMax /\ ckPc = "returned"
    /\ Cardinality(ckVisited) >= 2


\* the source_type argument a handler calls search with: query_tenant passes none,
\* so search runs with its default
SearchSourceTypeOf(rec) == IF rec.endpoint = "tenant" THEN "all" ELSE rec.source_type

\* C24: for every source_type in {all, documents, websites} and filter_user_code
\* given or not, the filter search passes to the index is the conjunction of
\* tenant_code = T, of source_type = document (website) exactly when source_type is
\* documents (websites), and of user_code = U exactly when filter_user_code = U is
\* given; so a documents-only search returns no website entry, a websites-only
\* search no document entry, and a user-filtered search no other uploader's entry.
C24_SearchFilterIsExact ==
    /\ \A t \in Tenants, u \in UserCodes \cup {None}, st \in SourceTypes :
          LET flt == SearchFilter(t, u, st)
          IN /\ <<"tenant_code", t>> \in flt
             /\ \A c \in flt : c[1] \in {"tenant_code", "source_type", "user_code"}
             /\ \A c \in flt : c[1] = "tenant_code" => c[2] = t
             /\ (<<"source_type", "document">> \in flt) <=> (st = "documents")
             /\ (<<"source_type", "website">> \in flt) <=> (st = "websites")
             /\ \A c \in flt : c[1] = "source_type" => c[2] \in {"document", "website"}
             /\ \A v \in UserCodes \cup {None} : (<<"user_code", v>> \in flt) <=> (u # None /\ v = u)
             /\ \A e \in Matching(index[QueryNamespace(t)], flt) :
                   /\ st = "documents" => e.metadata.source_type = "document"
                   /\ st = "websites" => e.metadata.source_type = "website"
                   /\ u # None => e.metadata.user_code = u
    /\ (q # NoQuery /\ q.searched) =>
          \A i \in DOMAIN q.matches :
              LET md == q.matches[i].metadata
              IN /\ md.tenant_code = q.tenant
                 /\ SearchSourceTypeOf(q) = "documents" => md.source_type = "document"
                 /\ SearchSourceTypeOf(q) = "websites" => md.source_type = "website"
                 /\ q.filter_user_code # None => md.user_code = q.filter_user_code

\* a tenant holds a document of one uploader and a website of another, and a search
\* restricted by source type or by uploader has returned matches
C24_FilteredSearchOverMixedIndex ==
    /\ q # NoQuery /\ q.outcome = "answer"
    /\ (SearchSourceTypeOf(q) # "all" \/ q.filter_user_code # None)
    /\ \E e1, e2 \in index[q.tenant] :
          /\ e1.metadata.source_type = "document" /\ e2.metadata.source_type = "website"
          /\ e1.metadata.user_code # e2.metadata.user_code


\* the stages of scrape_and_index_website in the order of its code
StageRank(pc) ==
    CASE pc = "fetch" -> 0 [] pc = "gather" -> 1 [] pc = "combine" -> 2
      [] pc = "indexing" -> 3 [] pc = "upsert" -> 4 [] pc = "done" -> 5 [] OTHER -> 6

\* C25: within one website ingestion the stages are strictly sequential: no image
\* task exists before the page is fetched and its text extracted, chunking starts
\* only when every dispatched image task has finished, the embedding call only after
\* chunking, the upsert only after the embedding call has returned, and no image
\* task takes a step once a later stage has begun.
C25_StagesStrictlySequential ==
    /\ [](/\ pagePc = "fetch" => Tasks = {}
          /\ PastGather => (blocked = 0 /\ \A i \in Tasks : tpc[i] = "done"))
    /\ [][/\ pagePc' # pagePc =>
               /\ StageRank(pagePc') > StageRank(pagePc)
               /\ pagePc' = "gather" => pagePc = "fetch"
               /\ pagePc' = "combine" => pagePc \in {"fetch", "gather"}
               /\ pagePc' = "indexing" => pagePc = "combine"
               /\ pagePc' = "upsert" => pagePc = "indexing"
               /\ pagePc' = "done" => pagePc = "upsert"
          /\ (pagePc # "fetch" /\ <<tpc, tres, tout, permits>>' # <<tpc, tres, tout, permits>>) =>
               (pagePc = "gather" /\ pagePc' = "gather")]_vars

\* the upsert of a page is under way after two image tasks ran, one described
C25_UpsertAfterImageTasks ==
    /\ pagePc = "upsert"
    /\ Cardinality(Tasks) >= 2
    /\ \E i \in Tasks : tout[i] = "described"


\* the combined content of a page without visible text, title or image descriptions
EmptyPage(r) == r.kind = "website" /\ r.content = WebAllContent(r.source, <<>>, <<>>)

\* C26: when a fetched page yields no visible text, no title and no image
\* descriptions, scrape_and_index_website returns a chunk count of 0 and makes no
\* embedding call and no vector-index call.
C26_EmptyPageIndexesNothing ==
    /\ \A r \in log :
          EmptyPage(r) =>
              /\ r.status = "returned" /\ r.result = 0
              /\ r.embedCalls = 0 /\ r.upsertCalls = 0 /\ r.ids = {}
    /\ \A s \in Slots :
          (runs[s].pc # "none" /\ EmptyPage(runs[s])) =>
              (runs[s].embedCalls = 0 /\ runs[s].upsertCalls = 0)


\* the entries the index holds for the source of a logged ingestion
EntriesOfSource(r) ==
    {e \in index[r.tenant] :
        e.metadata.source_type = SourceType(r.kind) /\ SourceOfEntry(e) = r.source}

\* the entries a logged ingestion that returned wrote: one per chunk of its content
VectorsOfLogged(r) ==
    LET chunks == ChunkText(IF r.kind = "document" THEN "rag" ELSE "scraper",
                            r.content, ScaledMaxChars, ScaledOverlap).chunks
        embs   == [i \in 1..Len(chunks) |-> Vec(chunks[i])]
    IN IF r.kind = "document"
       THEN DocVectors(r.tenant, r.user, r.source, chunks, embs)
       ELSE WebVectors(r.tenant, r.user, r.source, chunks, embs)

\* C27: after a source is re-ingested under the same tenant the entries stored for
\* that (tenant, source) are exactly the chunks of one ingestion, the latest: no entry
\* of a previous version with a chunk index at or above the new chunk count remains.
C27_OnlyLatestVersionStored ==
    \A r \in log :
        (r.status = "returned" /\ r.ids # {}) =>
            \E r2 \in log :
                /\ r2.status = "returned" /\ r2.tenant = r.tenant
                /\ r2.kind = r.kind /\ r2.source = r.source
                /\ EntriesOfSource(r) = VectorsOfLogged(r2)


\* the entries of a row's source that a search of its tenant without source or
\* uploader restriction can return
ReturnableEntries(row) ==
    {e \in Matching(index[QueryNamespace(row.tenant)], SearchFilter(row.tenant, None, "all")) :
        e.metadata.source_type = SourceType(row.kind) /\ SourceOfEntry(e) = row.source}

C29_SourcesWereInPrompt ==
    (q # NoQuery /\ q.outcome = "answer") =>
        \A j \in DOMAIN q.sources :
            \E i \in DOMAIN PromptContexts(q.contexts) :
                /\ SourceOfMatch(q.matches[i]) = q.sources[j]
                /\ PromptContexts(q.contexts)[i] = Get(q.matches[i].metadata, "text", <<>>)


\* image task i exists and is at one of the positions
TaskIn(i, positions) == IF i \in Tasks THEN tpc[i] \in positions ELSE FALSE

\* C30: every image task gives its permit back on every exit path, so no permit
\* leaks: the free permits and the tasks inside the guarded section always add up to
\* max_concurrent_images, all permits are free once the enrichment pass has ended,
\* and provided each admitted task finishes (FairAdmitted), every dispatched task is
\* eventually admitted.
C30_NoPermitLeak ==
    /\ [](pagePc = "gather" => permits + Cardinality(InFlight) = maxConc)
    /\ []((PastGather /\ Tasks # {}) => permits = maxConc)
    /\ \A i \in TaskIds :
          [](TaskIn(i, {"new", "waiting"}) =>
               <>TaskIn(i, {"entered", "download", "vision", "done"}))

\* the pass has ended with all permits free after more tasks than permits ran, one
\* of them skipped, one failed and one described
C30_AllPermitsFreeAfterMixedExits ==
    /\ PastGather /\ permits = maxConc
    /\ Cardinality(Tasks) > maxConc
    /\ \E i, j, k \in Tasks :
          tout[i] = "svg" /\ tout[j] \in FailureKinds /\ tout[k] = "described"

====
